---- MODULE Spec2Model ----
(***************************************************************************)
(* The authentication routes of routes/authRoutes.js (the router that is   *)
(* exported last, with two-factor authentication) over the User model.     *)
(*                                                                         *)
(* A request handler runs atomically between two awaits.  POST /register   *)
(* and POST /login read the user record, await bcrypt, and then write, so  *)
(* each is split at that await and two requests can interleave there.      *)
(* The other handlers make one database call and are one step.             *)
(*                                                                         *)
(* Time: the code only compares lockUntil with Date.now() and assigns      *)
(* Date.now() + 10 minutes.  lockUntil is therefore kept as the number of  *)
(* clock ticks that remain until it (lockUntil - Date.now(), never below   *)
(* 0), and Tick is the clock advancing: NoLock is null, 0 is a date that   *)
(* has passed, LockTicks is "10 minutes from now".                         *)
(***************************************************************************)
EXTENDS Integers, FiniteSets, Sequences, TLC

VARIABLES
    users,       \* the User collection: _id -> document
    session,     \* session id -> req.session.user, for the sessions that have one
    uploads,     \* the files multer stored in uploads/
    req,         \* the requests suspended at an await: slot -> continuation
    last,        \* the last request answered and its response
    otpState,    \* history: per session, the 2FA standing of its last login
    failures,    \* history: per account, wrong-password logins completed since
                 \*   the last successful login or lockout
    served,      \* history: the requests received so far (counted by Spec)
    wrongPosts,  \* history: per account, wrong-password POST /login received
                 \*   since the last successful login or lockout (counted by
                 \*   LoginSeqSpec)
    loggedOut    \* history: the sessions that GET /logout destroyed and in
                 \*   which no POST /login has succeeded since (kept by
                 \*   SessionSpec)

vars == <<users, session, uploads, req, last, otpState, failures, served, wrongPosts,
          loggedOut>>

----------------------------------------------------------------------------
\* Bounds of the model.
MaxUsers == 2        \* documents the collection can hold
MaxInFlight == 2     \* requests suspended at an await at the same time
LockTicks == 2       \* clock ticks that make up the 10 minutes of a lock
MaxFiles == 1        \* files the uploads directory can hold
MaxRequests == 5     \* requests received in one run of the whole router

\* Program constant: the failed attempts that lock an account.
MaxAttempts == 5

Ids == 1..MaxUsers
Slots == 1..MaxInFlight
Files == 1..MaxFiles
Sessions == {"s1", "s2"}
Emails == {"a@x", "b@x"}
Passwords == {"pw1", "pw2"}
Names == {"Ann"}
Secrets == {"K1", "K2"}

NoId == 0            \* findOne / findById found nothing
NoLock == -1         \* lockUntil: null
NoFile == 0          \* avatar: null, req.file: undefined
NoSecret == "undefined"
Missing == ""        \* a form field that was left out

----------------------------------------------------------------------------
\* bcrypt and speakeasy.

Hash(password) == <<"bcrypt", password>>

\* Mutant: the promise bcrypt.compare returns is tested without being awaited.
CompareUnawaited(password, hash) == TRUE

Compare(password, hash) == hash = Hash(password)

Totp(secret) == <<"totp", secret>>

Otps == {Totp(k) : k \in Secrets}

TotpVerify(secret, token) == token = Totp(secret)

----------------------------------------------------------------------------
\* The User model.

NewUser(id, email, hashedPassword) ==
    [_id |-> id, email |-> email, password |-> hashedPassword, avatar |-> NoFile,
     loginAttempts |-> 0, lockUntil |-> NoLock,
     twoFASecret |-> NoSecret, is2FAEnabled |-> FALSE]

Min(S) == CHOOSE x \in S : \A y \in S : x <= y

\* Mutant: the query has no filter, and finds the first document there is.
FindOneUnfiltered(email) ==
    IF DOMAIN users = {} THEN NoId ELSE Min(DOMAIN users)

\* User.findOne({ email }): the _id of the first document with that email.
FindOne(email) ==
    LET found == {i \in DOMAIN users : users[i].email = email}
    IN  IF found = {} THEN NoId ELSE Min(found)

\* User.findById(id).
FindById(id) == IF id \in DOMAIN users THEN id ELSE NoId

\* Mutant: the schema declares no unique index on email.
DuplicateKeyNoIndex(email) == FALSE

\* The unique index on email: an insert with an email that a stored document
\* has is refused with a duplicate key error.
DuplicateKey(email) == \E i \in DOMAIN users : users[i].email = email

\* A document loaded by a query: its fields and the paths modified since.
Loaded(id) == [d |-> users[id], m |-> {}]

\* doc.path = val: the path is marked modified when the value changes.
SetPath(doc, path, val) ==
    IF doc.d[path] = val THEN doc
    ELSE [d |-> [doc.d EXCEPT ![path] = val], m |-> doc.m \cup {path}]

\* doc.save() of a loaded document: writes the modified paths, and only those.
Saved(doc) ==
    [users EXCEPT ![doc.d._id] =
        [f \in DOMAIN @ |-> IF f \in doc.m THEN doc.d[f] ELSE @[f]]]

\* Mutant: the lock check is left out.
LockedNever(u) == FALSE

Locked(u) == u.lockUntil # NoLock /\ u.lockUntil > 0

----------------------------------------------------------------------------
\* Requests and responses.

Respond(s, route, email, password, body) ==
    last' = [route |-> route, email |-> email, password |-> password,
             body |-> body]

FreeSlot == Min(Slots \ DOMAIN req)

Suspend(k) == req' = (FreeSlot :> k) @@ req

Resume(r) == req' = [x \in DOMAIN req \ {r} |-> req[x]]

HasUser(s) == s \in DOMAIN session

\* req.session.destroy()
Destroyed(s) == [x \in DOMAIN session \ {s} |-> session[x]]

Init ==
    /\ users = <<>>
    /\ session = <<>>
    /\ uploads = {}
    /\ req = <<>>
    /\ last = [route |-> "GET /", email |-> Missing, password |-> Missing,
               body |-> "render index"]
    /\ otpState = [s \in Sessions |-> "none"]
    /\ failures = <<>>
    /\ served = 0
    /\ wrongPosts = <<>>
    /\ loggedOut = {}

----------------------------------------------------------------------------
\* POST /register, up to the await of bcrypt.hash.
PostRegister(s, name, email, password) ==
    /\ IF name = Missing \/ email = Missing \/ password = Missing
       THEN /\ Respond(s, "POST /register", email, password,
                       "render register: All fields are required.")
            /\ UNCHANGED req
       ELSE IF FindOne(email) # NoId
       THEN /\ Respond(s, "POST /register", email, password,
                       "render register: This email has already been registered.")
            /\ UNCHANGED req
       ELSE /\ Slots \ DOMAIN req # {}
            /\ Suspend([op |-> "register", s |-> s, email |-> email,
                        password |-> password])
            /\ UNCHANGED last
    /\ UNCHANGED <<users, session, uploads, otpState, failures>>

\* POST /register, from the hash to the response: new User(...).save().
RegisterSave(r) ==
    /\ r \in DOMAIN req
    /\ req[r].op = "register"
    /\ LET q == req[r]
           hashedPassword == Hash(q.password)
       IN  IF DuplicateKey(q.email)
           THEN /\ Respond(q.s, "POST /register", q.email, q.password,
                           "render register: An error occurred during registration.")
                /\ UNCHANGED <<users, failures>>
           ELSE /\ Ids \ DOMAIN users # {}
                /\ LET id == Min(Ids \ DOMAIN users)
                   IN  /\ users' = (id :> NewUser(id, q.email, hashedPassword)) @@ users
                       /\ failures' = (id :> 0) @@ failures
                /\ Respond(q.s, "POST /register", q.email, q.password,
                           "redirect /login")
    /\ Resume(r)
    /\ UNCHANGED <<session, uploads, otpState>>

\* POST /login, up to the await of bcrypt.compare.
PostLogin(s, email, password) ==
    /\ IF email = Missing \/ password = Missing
       THEN /\ Respond(s, "POST /login", email, password,
                       "render login: Email and password are required.")
            /\ UNCHANGED req
       ELSE IF FindOne(email) = NoId
       THEN /\ Respond(s, "POST /login", email, password,
                       "render login: Invalid email or password.")
            /\ UNCHANGED req
       ELSE LET user == Loaded(FindOne(email))
            IN  IF Locked(user.d)
                THEN /\ Respond(s, "POST /login", email, password,
                                "render login: The account is temporarily blocked.")
                     /\ UNCHANGED req
                ELSE /\ Slots \ DOMAIN req # {}
                     /\ Suspend([op |-> "login", s |-> s, email |-> email,
                                 password |-> password, user |-> user])
                     /\ UNCHANGED last
    /\ UNCHANGED <<users, session, uploads, otpState, failures>>

\* Mutant: the threshold is tested with > in place of >=.
FailedLoginLate(user) ==
    LET counted == SetPath(user, "loginAttempts", user.d.loginAttempts + 1)
    IN  IF counted.d.loginAttempts > MaxAttempts
        THEN SetPath(SetPath(counted, "lockUntil", LockTicks), "loginAttempts", 0)
        ELSE counted

\* Mutant: the lock is set and the counter is not reset.
FailedLoginNoReset(user) ==
    LET counted == SetPath(user, "loginAttempts", user.d.loginAttempts + 1)
    IN  IF counted.d.loginAttempts >= MaxAttempts
        THEN SetPath(counted, "lockUntil", LockTicks)
        ELSE counted

\* Mutant: the lock lasts one tick longer than the 10 minutes.
FailedLoginLongLock(user) ==
    LET counted == SetPath(user, "loginAttempts", user.d.loginAttempts + 1)
    IN  IF counted.d.loginAttempts >= MaxAttempts
        THEN SetPath(SetPath(counted, "lockUntil", LockTicks + 1), "loginAttempts", 0)
        ELSE counted

\* The failed branch of POST /login: the document after the handler's assignments.
FailedLogin(user) ==
    LET counted == SetPath(user, "loginAttempts", user.d.loginAttempts + 1)
    IN  IF counted.d.loginAttempts >= MaxAttempts
        THEN SetPath(SetPath(counted, "lockUntil", LockTicks), "loginAttempts", 0)
        ELSE counted

\* The successful branch of POST /login: the counter and the lock are reset.
PassedLogin(user) ==
    SetPath(SetPath(user, "loginAttempts", 0), "lockUntil", NoLock)

\* POST /login, from the result of bcrypt.compare to the end of user.save().
LoginSave(r) ==
    /\ r \in DOMAIN req
    /\ req[r].op = "login"
    /\ LET q == req[r]
           id == q.user.d._id
       IN  IF ~Compare(q.password, q.user.d.password)
           THEN LET user == FailedLogin(q.user)
                IN  /\ users' = Saved(user)
                    /\ IF "lockUntil" \in user.m
                       THEN /\ Respond(q.s, "POST /login", q.email, q.password,
                                       "render login: The account has been temporarily blocked for 10 minutes.")
                            /\ failures' = [failures EXCEPT ![id] = 0]
                       ELSE /\ Respond(q.s, "POST /login", q.email, q.password,
                                       "render login: Invalid email or password.")
                            /\ failures' = [failures EXCEPT ![id] =
                                               IF @ < MaxAttempts THEN @ + 1 ELSE @]
                    /\ Resume(r)
           ELSE LET user == PassedLogin(q.user)
                IN  /\ users' = Saved(user)
                    /\ failures' = [failures EXCEPT ![id] = 0]
                    /\ req' = [req EXCEPT ![r] = [op |-> "session", s |-> q.s,
                                  email |-> q.email, password |-> q.password,
                                  user |-> user]]
                    /\ UNCHANGED last
    /\ UNCHANGED <<session, uploads, otpState>>

\* Mutant: the session user is set and the 2FA flag is not looked at.
LoginFinishNo2FA(r) ==
    /\ r \in DOMAIN req
    /\ req[r].op = "session"
    /\ LET q == req[r]
           user == q.user.d
       IN  /\ session' = (q.s :> [_id |-> user._id, email |-> user.email,
                                  avatar |-> user.avatar]) @@ session
           /\ Respond(q.s, "POST /login", q.email, q.password, "redirect /dashboard")
           /\ otpState' = [otpState EXCEPT ![q.s] = "none"]
    /\ Resume(r)
    /\ UNCHANGED <<users, uploads, failures>>

\* POST /login, after user.save(): the session user and the redirect.
LoginFinish(r) ==
    /\ r \in DOMAIN req
    /\ req[r].op = "session"
    /\ LET q == req[r]
           user == q.user.d
       IN  /\ session' = (q.s :> [_id |-> user._id, email |-> user.email,
                                  avatar |-> user.avatar]) @@ session
           /\ IF user.is2FAEnabled
              THEN /\ Respond(q.s, "POST /login", q.email, q.password,
                              "redirect /verify-otp")
                   /\ otpState' = [otpState EXCEPT ![q.s] = "pending"]
              ELSE /\ Respond(q.s, "POST /login", q.email, q.password,
                              "redirect /dashboard")
                   /\ otpState' = [otpState EXCEPT ![q.s] = "none"]
    /\ Resume(r)
    /\ UNCHANGED <<users, uploads, failures>>

----------------------------------------------------------------------------
\* GET /setup-2fa, with the secret speakeasy.generateSecret draws.
GetSetup2FA(s, secret) ==
    /\ IF ~HasUser(s)
       THEN /\ Respond(s, "GET /setup-2fa", Missing, Missing, "redirect /login")
            /\ UNCHANGED users
       ELSE IF FindById(session[s]._id) = NoId
       THEN /\ Respond(s, "GET /setup-2fa", Missing, Missing,
                       "500 Error during 2FA setup")
            /\ UNCHANGED users
       ELSE LET user == Loaded(FindById(session[s]._id))
            IN  /\ users' = Saved(SetPath(SetPath(user, "twoFASecret", secret),
                                          "is2FAEnabled", TRUE))
                /\ Respond(s, "GET /setup-2fa", Missing, Missing, "render setup-2fa")
    /\ UNCHANGED <<session, uploads, req, otpState, failures>>

\* Mutant: the page is rendered without the session check.
GetVerifyOtpOpen(s) ==
    /\ Respond(s, "GET /verify-otp", Missing, Missing, "render verify-otp")
    /\ UNCHANGED <<users, session, uploads, req, otpState, failures>>

\* GET /verify-otp
GetVerifyOtp(s) ==
    /\ IF ~HasUser(s)
       THEN Respond(s, "GET /verify-otp", Missing, Missing, "redirect /login")
       ELSE Respond(s, "GET /verify-otp", Missing, Missing, "render verify-otp")
    /\ UNCHANGED <<users, session, uploads, req, otpState, failures>>

\* POST /verify-otp
PostVerifyOtp(s, otp) ==
    /\ IF ~HasUser(s)
       THEN /\ Respond(s, "POST /verify-otp", Missing, Missing, "redirect /login")
            /\ UNCHANGED <<session, otpState>>
       ELSE IF FindById(session[s]._id) = NoId
       THEN /\ session' = Destroyed(s)
            /\ otpState' = [otpState EXCEPT ![s] = "none"]
            /\ Respond(s, "POST /verify-otp", Missing, Missing, "redirect /login")
       ELSE LET user == users[FindById(session[s]._id)]
            IN  IF user.twoFASecret = NoSecret
                THEN /\ Respond(s, "POST /verify-otp", Missing, Missing,
                                "500 Error verifying OTP")
                     /\ UNCHANGED <<session, otpState>>
                ELSE IF TotpVerify(user.twoFASecret, otp)
                THEN /\ Respond(s, "POST /verify-otp", Missing, Missing,
                                "redirect /dashboard")
                     /\ otpState' = [otpState EXCEPT ![s] = "verified"]
                     /\ UNCHANGED session
                ELSE /\ Respond(s, "POST /verify-otp", Missing, Missing,
                                "render verify-otp: Invalid OTP. Try again.")
                     /\ UNCHANGED <<session, otpState>>
    /\ UNCHANGED <<users, uploads, req, failures>>

\* GET /dashboard
GetDashboard(s) ==
    /\ IF ~HasUser(s)
       THEN /\ Respond(s, "GET /dashboard", Missing, Missing, "redirect /login")
            /\ UNCHANGED <<session, otpState>>
       ELSE IF FindById(session[s]._id) = NoId
       THEN /\ session' = Destroyed(s)
            /\ otpState' = [otpState EXCEPT ![s] = "none"]
            /\ Respond(s, "GET /dashboard", Missing, Missing, "redirect /login")
       ELSE /\ Respond(s, "GET /dashboard", Missing, Missing, "render dashboard")
            /\ UNCHANGED <<session, otpState>>
    /\ UNCHANGED <<users, uploads, req, failures>>

\* Mutant: the redirect is sent and the session is not destroyed.
GetLogoutKeeps(s) ==
    /\ Respond(s, "GET /logout", Missing, Missing, "redirect /login")
    /\ UNCHANGED <<users, session, uploads, req, otpState, failures>>

\* GET /logout
GetLogout(s) ==
    /\ session' = Destroyed(s)
    /\ otpState' = [otpState EXCEPT ![s] = "none"]
    /\ Respond(s, "GET /logout", Missing, Missing, "redirect /login")
    /\ UNCHANGED <<users, uploads, req, failures>>

\* multer's upload.single("avatar"), which runs before the handler: a file in
\* the request is stored under a new uuid name; req.file is that name.
Stored(file) == IF file = NoFile THEN uploads ELSE uploads \cup {file}

\* POST /upload; file is the name multer gave the file, NoFile without one.
PostUpload(s, file) ==
    /\ file = NoFile \/ file \in Files \ uploads
    /\ uploads' = Stored(file)
    /\ IF ~HasUser(s)
       THEN /\ Respond(s, "POST /upload", Missing, Missing, "redirect /login")
            /\ UNCHANGED <<users, session>>
       ELSE IF file = NoFile
       THEN /\ Respond(s, "POST /upload", Missing, Missing, "send File upload error!")
            /\ UNCHANGED <<users, session>>
       ELSE /\ users' = [i \in DOMAIN users |->
                            IF i = session[s]._id
                            THEN [users[i] EXCEPT !.avatar = file] ELSE users[i]]
            /\ session' = [session EXCEPT ![s].avatar = file]
            /\ Respond(s, "POST /upload", Missing, Missing, "redirect /dashboard")
    /\ UNCHANGED <<req, otpState, failures>>

\* The clock advances by one tick: every lockUntil in the future is one tick
\* nearer.
Tick ==
    /\ users' = [i \in DOMAIN users |->
                    IF users[i].lockUntil > 0
                    THEN [users[i] EXCEPT !.lockUntil = @ - 1] ELSE users[i]]
    /\ UNCHANGED <<session, uploads, req, last, otpState, failures>>

----------------------------------------------------------------------------
\* The whole router: a request arrives, a suspended request goes on, or the
\* clock advances.  One run receives at most MaxRequests requests.
Arrives ==
    served < MaxRequests /\ served' = served + 1 /\ UNCHANGED <<wrongPosts, loggedOut>>

Goes == UNCHANGED <<served, wrongPosts, loggedOut>>

Next ==
    \/ \E s \in Sessions, name \in Names \cup {Missing},
          email \in Emails \cup {Missing}, password \in Passwords \cup {Missing} :
            Arrives /\ PostRegister(s, name, email, password)
    \/ \E s \in Sessions, email \in Emails \cup {Missing},
          password \in Passwords \cup {Missing} :
            Arrives /\ PostLogin(s, email, password)
    \/ \E s \in Sessions, secret \in Secrets : Arrives /\ GetSetup2FA(s, secret)
    \/ \E s \in Sessions : Arrives /\ GetVerifyOtp(s)
    \/ \E s \in Sessions, otp \in Otps : Arrives /\ PostVerifyOtp(s, otp)
    \/ \E s \in Sessions : Arrives /\ GetDashboard(s)
    \/ \E s \in Sessions : Arrives /\ GetLogout(s)
    \/ \E s \in Sessions, file \in Files \cup {NoFile} :
            Arrives /\ PostUpload(s, file)
    \/ \E r \in Slots : Goes /\ RegisterSave(r)
    \/ \E r \in Slots : Goes /\ LoginSave(r)
    \/ \E r \in Slots : Goes /\ LoginFinish(r)
    \/ Goes /\ Tick

Spec == Init /\ [][Next]_vars

----------------------------------------------------------------------------
\* The login state machine on its own: the account a@x is registered, and the
\* requests are POST /login, in any number.
InitLogin ==
    /\ users = (1 :> NewUser(1, "a@x", Hash("pw1")))
    /\ session = <<>>
    /\ uploads = {}
    /\ req = <<>>
    /\ last = [route |-> "GET /", email |-> Missing, password |-> Missing,
               body |-> "render index"]
    /\ otpState = [s \in Sessions |-> "none"]
    /\ failures = (1 :> 0)
    /\ served = 0
    /\ wrongPosts = (1 :> 0)
    /\ loggedOut = {}

NextLogin ==
    \/ \E s \in Sessions, email \in Emails \cup {Missing},
          password \in Passwords \cup {Missing} :
            Goes /\ PostLogin(s, email, password)
    \/ \E r \in Slots : Goes /\ LoginSave(r)
    \/ \E r \in Slots : Goes /\ LoginFinish(r)
    \/ Goes /\ Tick

LoginSpec == InitLogin /\ [][NextLogin]_vars

\* The same for the requests of one session, while the clock advances.
NextLoginFair ==
    \/ \E email \in Emails \cup {Missing}, password \in Passwords \cup {Missing} :
            Goes /\ PostLogin("s1", email, password)
    \/ \E r \in Slots : Goes /\ LoginSave(r)
    \/ \E r \in Slots : Goes /\ LoginFinish(r)
    \/ Goes /\ Tick

LoginFairSpec == InitLogin /\ [][NextLoginFair]_vars /\ WF_vars(Goes /\ Tick)

\* The same as LoginSpec with the login requests processed one at a time: a
\* request arrives when none is suspended.  wrongPosts counts the POST /login
\* that name an account and give another password than the one registered.
PostsCounted(email, password) ==
    LET id == FindOne(email)
    IN  wrongPosts' =
            IF /\ email # Missing /\ password # Missing /\ id # NoId
               /\ users[id].password # Hash(password)
               /\ wrongPosts[id] < MaxAttempts
            THEN [wrongPosts EXCEPT ![id] = @ + 1]
            ELSE wrongPosts

PostsReset(r) ==
    wrongPosts' =
        IF \/ r \in DOMAIN req'
           \/ last'.body = "render login: The account has been temporarily blocked for 10 minutes."
        THEN [wrongPosts EXCEPT ![req[r].user.d._id] = 0]
        ELSE wrongPosts

NextLoginSeq ==
    \/ \E s \in Sessions, email \in Emails \cup {Missing},
          password \in Passwords \cup {Missing} :
            /\ req = <<>>
            /\ PostLogin(s, email, password)
            /\ PostsCounted(email, password)
            /\ UNCHANGED <<served, loggedOut>>
    \/ \E r \in Slots : LoginSave(r) /\ PostsReset(r) /\ UNCHANGED <<served, loggedOut>>
    \/ \E r \in Slots : Goes /\ LoginFinish(r)
    \/ Goes /\ Tick

LoginSeqSpec == InitLogin /\ [][NextLoginSeq]_vars

----------------------------------------------------------------------------
\* The session routes for the registered account a@x: at most MaxRequests
\* requests are received, POST /login among them.  loggedOut gains a session
\* at its GET /logout and loses it when a POST /login sets its session user.
LogsOut(s) ==
    /\ served < MaxRequests
    /\ served' = served + 1
    /\ loggedOut' = loggedOut \cup {s}
    /\ UNCHANGED wrongPosts

LogsIn(r) == loggedOut' = loggedOut \ {req[r].s} /\ UNCHANGED <<served, wrongPosts>>

NextSession ==
    \/ \E s \in Sessions, email \in Emails \cup {Missing},
          password \in Passwords \cup {Missing} :
            Arrives /\ PostLogin(s, email, password)
    \/ \E s \in Sessions, secret \in Secrets : Arrives /\ GetSetup2FA(s, secret)
    \/ \E s \in Sessions : Arrives /\ GetVerifyOtp(s)
    \/ \E s \in Sessions, otp \in Otps : Arrives /\ PostVerifyOtp(s, otp)
    \/ \E s \in Sessions : Arrives /\ GetDashboard(s)
    \/ \E s \in Sessions : LogsOut(s) /\ GetLogout(s)
    \/ \E s \in Sessions, file \in Files \cup {NoFile} :
            Arrives /\ PostUpload(s, file)
    \/ \E r \in Slots : Goes /\ LoginSave(r)
    \/ \E r \in Slots : LoginFinish(r) /\ LogsIn(r)
    \/ Goes /\ Tick

SessionSpec == InitLogin /\ [][NextSession]_vars

----------------------------------------------------------------------------
\* C1: a session whose password login was sent on to /verify-otp, and that has
\* not passed POST /verify-otp with a valid code since, is never shown the
\* dashboard by GET /dashboard.
C1_DashboardNeedsOtp ==
    [][\A s \in Sessions :
          GetDashboard(s) /\ last'.body = "render dashboard"
              => otpState[s] # "pending"]_vars

\* C2, as stated: with the login requests processed one at a time, the stored
\* loginAttempts is the number of wrong-password POST /login since the last
\* successful login or lockout: each of the first four adds 1 and the fifth sets
\* the lock and resets the counter.
C2_EveryWrongPostCounts ==
    req = <<>> =>
        \A i \in DOMAIN users : users[i].loginAttempts = wrongPosts[i]

\* C2, amended: with the login requests processed one at a time, counting the
\* wrong-password POST /login that arrive while the account is not locked, the
\* fifth since the last successful login or lockout sets lockUntil to the current
\* time plus the lock duration and loginAttempts to 0, and each of the first four
\* adds 1 to loginAttempts and leaves lockUntil as it was, whatever time passed.
C2_FifthCheckedFailureLocks ==
    [][\A r \in DOMAIN req :
          /\ req[r].op = "login"
          /\ users[req[r].user.d._id].password # Hash(req[r].password)
          /\ LoginSave(r)
          => LET i == req[r].user.d._id
             IN  IF failures[i] = MaxAttempts - 1
                 THEN /\ users'[i].lockUntil = LockTicks
                      /\ users'[i].loginAttempts = 0
                 ELSE /\ users'[i].loginAttempts = users[i].loginAttempts + 1
                      /\ users'[i].lockUntil = users[i].lockUntil]_vars

\* The fifth wrong password in a row has just locked the account.
C2_Witness ==
    /\ last.body = "render login: The account has been temporarily blocked for 10 minutes."
    /\ req = <<>>
    /\ \E i \in DOMAIN users :
          /\ users[i].email = last.email
          /\ users[i].lockUntil = LockTicks
          /\ users[i].loginAttempts = 0
          /\ failures[i] = 0

\* C3: a POST /login for an account whose stored lockUntil is later than the
\* current time is answered with the "temporarily blocked" error, whatever the
\* password, and ends there: no session user is set and nothing is suspended.
C3_LockedLoginRejected ==
    [][\A s \in Sessions, email \in Emails, password \in Passwords :
          /\ PostLogin(s, email, password)
          /\ \E i \in DOMAIN users : users[i].email = email /\ users[i].lockUntil > 0
          => /\ last'.body = "render login: The account is temporarily blocked."
             /\ session' = session
             /\ req' = req]_vars

\* A login with the right password has just been refused, the account being
\* locked.
C3_Witness ==
    /\ last.route = "POST /login"
    /\ last.body = "render login: The account is temporarily blocked."
    /\ \E i \in DOMAIN users :
          /\ users[i].email = last.email
          /\ users[i].password = Hash(last.password)
          /\ users[i].lockUntil > 0
    /\ session = <<>>

\* C4: a session user is created, or changed to another account, only by the last
\* step of a POST /login of that session for that account; a login that waits
\* for that step gave the password of an existing account, and a login that
\* passed the lock check saw the account not locked.
C4_PassedTheChecks ==
    \A r \in DOMAIN req :
        req[r].op \in {"login", "session"} =>
            LET id == req[r].user.d._id
            IN  /\ id \in DOMAIN users
                /\ users[id].email = req[r].email
                /\ req[r].user.d.lockUntil <= 0
                /\ req[r].op = "session" => users[id].password = Hash(req[r].password)

C4_SetByLoginAlone ==
    \A s \in Sessions :
        /\ s \in DOMAIN session'
        /\ s \in DOMAIN session => session'[s]._id # session[s]._id
        => \E r \in DOMAIN req :
              /\ req[r].op = "session"
              /\ req[r].s = s
              /\ req[r].user.d._id = session'[s]._id
              /\ LoginFinish(r)

C4_SessionUserOnlyByLogin == []C4_PassedTheChecks /\ [][C4_SetByLoginAlone]_vars

\* A login has just set the session user.
C4_Witness ==
    /\ last.route = "POST /login"
    /\ last.body = "redirect /dashboard"
    /\ \E s \in DOMAIN session :
          /\ users[session[s]._id].email = last.email
          /\ users[session[s]._id].password = Hash(last.password)

\* C5: GET /dashboard, GET /setup-2fa, GET and POST /verify-otp and POST /upload
\* of a session with no session user answer with a redirect to /login and change
\* no user record and no session.
C5_ProtectedRoutesRedirect ==
    [][\A s \in Sessions :
          /\ s \notin DOMAIN session
          /\ \/ GetDashboard(s)
             \/ \E secret \in Secrets : GetSetup2FA(s, secret)
             \/ GetVerifyOtp(s)
             \/ \E otp \in Otps : PostVerifyOtp(s, otp)
             \/ \E file \in Files \cup {NoFile} : PostUpload(s, file)
          => /\ last'.body = "redirect /login"
             /\ users' = users
             /\ session' = session]_vars

\* An upload without a session user has just been redirected, with an account
\* registered and another session logged in.
C5_Witness ==
    /\ last.route = "POST /upload"
    /\ last.body = "redirect /login"
    /\ users # <<>>
    /\ \E s \in Sessions : s \notin DOMAIN session
    /\ \E s \in Sessions : s \in DOMAIN session

\* C6: no two user records have the same email, whatever the interleaving of
\* the registrations; a user record keeps its email and its password hash; and a
\* registration for an email that is registered, found at the existence check or
\* at the save, renders an error and leaves the collection as it was.
C6_OnePerEmail ==
    \A i, j \in DOMAIN users : users[i].email = users[j].email => i = j

C6_RecordKept ==
    \A i \in DOMAIN users :
        /\ i \in DOMAIN users'
        /\ users'[i].email = users[i].email
        /\ users'[i].password = users[i].password

C6_DuplicateRefused ==
    /\ \A s \in Sessions, name \in Names, email \in Emails, password \in Passwords :
          /\ PostRegister(s, name, email, password)
          /\ \E i \in DOMAIN users : users[i].email = email
          => /\ last'.body = "render register: This email has already been registered."
             /\ users' = users
             /\ req' = req
    /\ \A r \in DOMAIN req :
          /\ req[r].op = "register"
          /\ RegisterSave(r)
          /\ \E i \in DOMAIN users : users[i].email = req[r].email
          => /\ last'.body = "render register: An error occurred during registration."
             /\ users' = users

C6_RegisterOncePerEmail ==
    /\ []C6_OnePerEmail
    /\ [][C6_RecordKept]_vars
    /\ [][C6_DuplicateRefused]_vars

\* Of two registrations for one email that both passed the existence check, the
\* second to save has just been refused by the unique index.
C6_Witness ==
    /\ last.route = "POST /register"
    /\ last.body = "render register: An error occurred during registration."
    /\ \E i \in DOMAIN users :
          users[i].email = last.email /\ users[i].password # Hash(last.password)

\* C7: the save of a POST /login with the right password leaves the stored
\* loginAttempts at 0 and lockUntil at null, the session user being set after it;
\* and the stored loginAttempts never counts a failed attempt made before the
\* last successful login: it is at most the number of failed attempts completed
\* since.
C7_OldFailuresForgotten ==
    \A i \in DOMAIN users : users[i].loginAttempts <= failures[i]

C7_SaveResets ==
    \A r \in DOMAIN req :
        /\ req[r].op = "login"
        /\ users[req[r].user.d._id].password = Hash(req[r].password)
        /\ LoginSave(r)
        => /\ users'[req[r].user.d._id].loginAttempts = 0
           /\ users'[req[r].user.d._id].lockUntil = NoLock
           /\ session' = session

C7_SuccessResetsCounter == []C7_OldFailuresForgotten /\ [][C7_SaveResets]_vars

\* C8: while the clock advances a locked account stops being locked; a lock never
\* reaches further than the lock duration from the current time; a POST /login
\* for a locked account changes no user record; and a POST /login with the right
\* password for an account that is not locked goes on to the password check,
\* passes it, and sets the session user at its end.
C8_NoLongerThanTheLock ==
    \A i \in DOMAIN users : users[i].lockUntil <= LockTicks

C8_LockedLoginChangesNothing ==
    \A s \in Sessions, email \in Emails, password \in Passwords :
        /\ PostLogin(s, email, password)
        /\ \E i \in DOMAIN users : users[i].email = email /\ users[i].lockUntil > 0
        => users' = users

C8_UnlockedLoginSucceeds ==
    /\ \A s \in Sessions, email \in Emails, password \in Passwords :
          /\ PostLogin(s, email, password)
          /\ \E i \in DOMAIN users :
                /\ users[i].email = email
                /\ users[i].lockUntil <= 0
                /\ users[i].password = Hash(password)
          => \E r \in DOMAIN req' : r \notin DOMAIN req /\ req'[r].op = "login"
    /\ \A r \in DOMAIN req :
          /\ req[r].op = "login"
          /\ users[req[r].user.d._id].password = Hash(req[r].password)
          /\ LoginSave(r)
          => r \in DOMAIN req' /\ req'[r].op = "session"
    /\ \A r \in DOMAIN req :
          /\ req[r].op = "session"
          /\ LoginFinish(r)
          => /\ req[r].s \in DOMAIN session'
             /\ session'[req[r].s]._id = req[r].user.d._id

C8_LockEnds ==
    /\ \A i \in Ids :
          (i \in DOMAIN users /\ users[i].lockUntil > 0)
              ~> (i \in DOMAIN users /\ users[i].lockUntil <= 0)
    /\ []C8_NoLongerThanTheLock
    /\ [][C8_LockedLoginChangesNothing]_vars
    /\ [][C8_UnlockedLoginSucceeds]_vars

\* A login with the right password, received after the lock had run out, has
\* passed the password check and is about to set the session user.
C8_Witness ==
    \E r \in DOMAIN req :
        /\ req[r].op = "session"
        /\ "lockUntil" \in req[r].user.m
        /\ users[req[r].user.d._id].password = Hash(req[r].password)
        /\ users[req[r].user.d._id].lockUntil = NoLock

\* C9: the wrong-password logins completed for an account since its last
\* successful login or lockout are fewer than MaxAttempts: the one that would
\* be the fifth locks the account.
C9_NoFailureLost ==
    \A i \in DOMAIN users : failures[i] < MaxAttempts

\* C10: every stored loginAttempts is in 0 .. MaxAttempts - 1.
C10_AttemptsBelowThreshold ==
    \A i \in DOMAIN users : users[i].loginAttempts \in 0..(MaxAttempts - 1)

\* A lock has just been set, and the same save left the counter at 0, while
\* another login is suspended.
C10_Witness ==
    /\ req # <<>>
    /\ \E i \in DOMAIN users :
          users[i].lockUntil = LockTicks /\ users[i].loginAttempts = 0

\* C11: a POST /login without email or without password, or with an email that
\* no user record has, is answered with an error on the login page and ends
\* there: every user record and every session is as before and nothing is
\* suspended.
C11_UnknownLoginChangesNothing ==
    [][\A s \in Sessions, email \in Emails \cup {Missing},
          password \in Passwords \cup {Missing} :
          /\ PostLogin(s, email, password)
          /\ \/ email = Missing
             \/ password = Missing
             \/ \A i \in DOMAIN users : users[i].email # email
          => /\ last'.route = "POST /login"
             /\ last'.body =
                    IF email = Missing \/ password = Missing
                    THEN "render login: Email and password are required."
                    ELSE "render login: Invalid email or password."
             /\ users' = users
             /\ session' = session
             /\ req' = req]_vars

\* A login for an email that is not registered has just been refused, while an
\* account has failed attempts counted and a session has a user.
C11_Witness ==
    /\ last.route = "POST /login"
    /\ last.body = "render login: Invalid email or password."
    /\ last.email # Missing
    /\ \A i \in DOMAIN users : users[i].email # last.email
    /\ \E i \in DOMAIN users : users[i].loginAttempts > 0
    /\ session # <<>>

\* C12: a session that GET /logout destroyed has no session user until a POST
\* /login sets one in it; until then its requests to /dashboard, /setup-2fa,
\* /verify-otp and /upload are redirected to /login; and GET /logout changes no
\* user record.
C12_NoUserAfterLogout ==
    \A s \in loggedOut : s \notin DOMAIN session

C12_LogoutStep ==
    \A s \in Sessions :
        GetLogout(s) => /\ s \notin DOMAIN session'
                        /\ users' = users
                        /\ last'.body = "redirect /login"

C12_RedirectedAfterLogout ==
    \A s \in loggedOut :
        \/ GetDashboard(s)
        \/ \E secret \in Secrets : GetSetup2FA(s, secret)
        \/ GetVerifyOtp(s)
        \/ \E otp \in Otps : PostVerifyOtp(s, otp)
        \/ \E file \in Files \cup {NoFile} : PostUpload(s, file)
        => last'.body = "redirect /login" /\ s \notin DOMAIN session'

C12_LogoutEndsSession ==
    /\ []C12_NoUserAfterLogout
    /\ [][C12_LogoutStep]_vars
    /\ [][C12_RedirectedAfterLogout]_vars

\* A logged-out session has just been sent from /dashboard to /login, while a
\* POST /login of a logged-out session has passed the password check and is
\* about to set the session user.
C12_Witness ==
    /\ last.route = "GET /dashboard"
    /\ last.body = "redirect /login"
    /\ \A s \in Sessions : s \in loggedOut \/ s \in DOMAIN session
    /\ \E r \in DOMAIN req : req[r].op = "session" /\ req[r].s \in loggedOut

\* C13: a POST /login that gave the right password is answered with a redirect
\* to /verify-otp when the user record it looked up has is2FAEnabled true and
\* with a redirect to /dashboard when it has not; is2FAEnabled once true stays
\* true, so the record still has it when the redirect to /verify-otp is sent.
\* A POST /verify-otp with a code that is not the one of the session user's
\* secret is never answered with a redirect to /dashboard, and for a session
\* user with a secret it is answered with the OTP page and its error.
C13_LookedUp ==
    \A s \in Sessions, email \in Emails, password \in Passwords :
        PostLogin(s, email, password) /\ req' # req
        => \E r \in DOMAIN req' \ DOMAIN req, i \in DOMAIN users :
              /\ users[i].email = email
              /\ req'[r].user.d = users[i]

C13_FlagStays ==
    \A r \in DOMAIN req :
        req[r].op \in {"login", "session"} /\ req[r].user.d.is2FAEnabled
        => users[req[r].user.d._id].is2FAEnabled

C13_Redirect ==
    \A r \in DOMAIN req :
        /\ req[r].op = "session"
        /\ LoginFinish(r)
        => /\ last'.route = "POST /login"
           /\ last'.body = IF req[r].user.d.is2FAEnabled
                           THEN "redirect /verify-otp"
                           ELSE "redirect /dashboard"

C13_InvalidCode ==
    \A s \in Sessions, otp \in Otps :
        /\ PostVerifyOtp(s, otp)
        /\ s \in DOMAIN session /\ session[s]._id \in DOMAIN users
                => otp # Totp(users[session[s]._id].twoFASecret)
        => /\ last'.body # "redirect /dashboard"
           /\ otpState' = otpState
           /\ /\ s \in DOMAIN session
              /\ session[s]._id \in DOMAIN users
              /\ users[session[s]._id].twoFASecret # NoSecret
              => last'.body = "render verify-otp: Invalid OTP. Try again."

C14_SecretNeedsOtp ==
    [][\A s \in Sessions, secret \in Secrets :
          /\ GetSetup2FA(s, secret)
          /\ s \in DOMAIN session
          /\ session[s]._id \in DOMAIN users
          /\ users[session[s]._id].is2FAEnabled
          /\ users'[session[s]._id].twoFASecret # users[session[s]._id].twoFASecret
          => otpState[s] # "pending"]_vars

\* C15: a POST /login that gave an email and a password and was refused, the
\* password not being the one of an account with that email, is answered with
\* "Invalid email or password." whether the email is registered or not.
C15_RejectedLoginsAlike ==
    /\ last.route = "POST /login"
    /\ last.email # Missing
    /\ last.password # Missing
    /\ last.body \notin {"redirect /dashboard", "redirect /verify-otp"}
    /\ \A i \in DOMAIN users :
          users[i].email = last.email => users[i].password # Hash(last.password)
    => last.body = "render login: Invalid email or password."

\* C16: a POST /upload of a session with no session user changes no user record
\* and adds no file to the uploads directory; a POST /upload with a file of a
\* session with a session user sets the avatar of that user's record, and of no
\* other, to the name of the stored file, and the avatar of the session user to
\* the same name.
C16_UploadEffect ==
    [][\A s \in Sessions, file \in Files \cup {NoFile} :
          PostUpload(s, file)
          => IF s \notin DOMAIN session
             THEN users' = users /\ uploads' = uploads /\ session' = session
             ELSE file # NoFile
                  => /\ file \in uploads'
                     /\ \A i \in DOMAIN users :
                           users'[i] = IF i = session[s]._id
                                       THEN [users[i] EXCEPT !.avatar = file]
                                       ELSE users[i]
                     /\ session'[s].avatar = file]_vars

====
